---------------------------- MODULE Spec2Model ----------------------------
(***************************************************************************)
(* A model of huffman_tool.py: the Huffman tree builder (on heapq), the    *)
(* prefix-code generator, the bit packer, the compressor (main) and the    *)
(* decompressor (decode_compressed_file).                                  *)
(*                                                                         *)
(* Representation.                                                         *)
(*   - a character is a one-character string; BOM stands for U+FEFF and  *)
(*     NL for '\n';                                                        *)
(*   - a Python dict is a sequence of <<key, value>> pairs in insertion    *)
(*     order (the order heapq sees), except the code table, which is only  *)
(*     ever looked up and is a function from characters to codes;          *)
(*   - HuffmanNode objects live in a store `nodes`; a reference to a node  *)
(*     is its index in the store and None is NoNode (0);                   *)
(*   - a bit string is a sequence of 0/1, a bytes object a sequence of     *)
(*     numbers in 0..255.                                                  *)
(***************************************************************************)
EXTENDS Integers, Sequences, FiniteSets, TLC

VARIABLES
    pc,                 \* where the run is
    input_text,         \* the characters of the input file
    frequencies,        \* dict char -> count (main, build_huffman_tree)
    nodes,              \* the HuffmanNode objects allocated by the builder
    priority_queue,     \* build_huffman_tree's heap: references into nodes
    huffman_root,       \* the node build_huffman_tree returned, or NoNode
    prefix_code_table,  \* generate_prefix_code's result
    bit_string,         \* main's bit_string / the bit string to pack
    compressed_data,    \* pack_bits' result
    encoded_file,       \* the compressed file: [exists, header_line, payload]
    error,              \* the exception main or build_huffman_tree ended with
    dec,                \* decode_compressed_file's locals and its exception
    output_file         \* the decompressed file: [exists, text]

vars == <<pc, input_text, frequencies, nodes, priority_queue, huffman_root,
          prefix_code_table, bit_string, compressed_data, encoded_file,
          error, dec, output_file>>

---------------------------------------------------------------------------
(* Bounds of the model. *)

\* longest input text
MaxLen == 4
\* most distinct symbols of a frequency table drawn directly
MaxSymbols == 5
\* largest count of a frequency table drawn directly
MaxFreq == 3
\* longest bit string drawn directly
MaxBits == 9
\* compressed files drawn directly: most symbols and largest count of the
\* header's table, longest bit string packed into the payload, largest
\* bit_string_length
MaxHeaderSymbols == 3
MaxHeaderFreq == 2
MaxStreamBits == 5
MaxHeaderBits == 9

---------------------------------------------------------------------------
(* Values. *)

None == "None"
NoNode == 0
\* a file that does not exist
NoEncodedFile == [exists |-> FALSE, header_line |-> <<>>, payload |-> <<>>]
NoOutputFile == [exists |-> FALSE, text |-> <<>>]
NoError == "NoError"
BOM == "BOM"
NL == "NL"

\* the characters input texts are made of
Alphabet == {"a", "b", "c", NL, BOM}

\* the keys of the frequency tables drawn directly, in this order
Symbols == <<"a", "b", "c", "d", "e", "f">>

\* test_huffman_tree_example's frequency table
ExampleFrequencies ==
    << <<"a", 45>>, <<"b", 13>>, <<"c", 12>>, <<"d", 16>>, <<"e", 9>>, <<"f", 5>> >>

\* test_huffman_tree_example's expected codes
ExpectedCodes ==
    [c \in {"a", "b", "c", "d", "e", "f"} |->
        CASE c = "a" -> <<0>>
          [] c = "c" -> <<1, 0, 0>>
          [] c = "b" -> <<1, 0, 1>>
          [] c = "f" -> <<1, 1, 0, 0>>
          [] c = "e" -> <<1, 1, 0, 1>>
          [] c = "d" -> <<1, 1, 1>>]

Min(x, y) == IF x < y THEN x ELSE y

SeqsUpTo(S, n) == UNION {[1..k -> S] : k \in 0..n}

---------------------------------------------------------------------------
(* Python dicts as sequences of <<key, value>> pairs in insertion order. *)

DictKeys(d) == {d[i][1] : i \in DOMAIN d}

DictHas(d, k) == k \in DictKeys(d)

DictGet(d, k, default) ==
    IF DictHas(d, k) THEN d[CHOOSE i \in DOMAIN d : d[i][1] = k][2] ELSE default

\* d[k] = v: an existing key keeps its place, a new one goes last
DictSet(d, k, v) ==
    IF DictHas(d, k)
    THEN [i \in DOMAIN d |-> IF d[i][1] = k THEN <<k, v>> ELSE d[i]]
    ELSE Append(d, <<k, v>>)

\* del d[k]
DictDel(d, k) == SelectSeq(d, LAMBDA e : e[1] # k)

---------------------------------------------------------------------------
(* HuffmanNode and heapq.  A heap is a sequence of node references; Python  *)
(* position p is index p + 1.                                               *)

HuffmanNode(char, freq, left, right) ==
    [char |-> char, freq |-> freq, left |-> left, right |-> right]

\* HuffmanNode.__lt__ on two references
NodeLt(ns, x, y) == ns[x].freq < ns[y].freq

RECURSIVE _siftdown(_, _, _, _, _)
\* heapq._siftdown, newitem lifted out of heap[pos]
_siftdown(ns, heap, startpos, pos, newitem) ==
    LET parentpos == (pos - 1) \div 2 IN
    IF pos > startpos /\ NodeLt(ns, newitem, heap[parentpos + 1])
    THEN _siftdown(ns, [heap EXCEPT ![pos + 1] = heap[parentpos + 1]],
                   startpos, parentpos, newitem)
    ELSE [heap EXCEPT ![pos + 1] = newitem]

RECURSIVE _siftup_loop(_, _, _, _, _)
\* the while loop of heapq._siftup: bubble the smaller child up to a leaf
_siftup_loop(ns, heap, startpos, pos, newitem) ==
    LET endpos == Len(heap)
        childpos == 2 * pos + 1
        rightpos == childpos + 1
        child == IF rightpos < endpos
                    /\ ~ NodeLt(ns, heap[childpos + 1], heap[rightpos + 1])
                 THEN rightpos ELSE childpos
    IN  IF childpos < endpos
        THEN _siftup_loop(ns, [heap EXCEPT ![pos + 1] = heap[child + 1]],
                          startpos, child, newitem)
        ELSE _siftdown(ns, heap, startpos, pos, newitem)

\* heapq._siftup
_siftup(ns, heap, pos) == _siftup_loop(ns, heap, pos, pos, heap[pos + 1])

RECURSIVE heapify_loop(_, _, _)
\* heapq.heapify's loop: for i in reversed(range(n // 2))
heapify_loop(ns, heap, i) ==
    IF i < 0 THEN heap ELSE heapify_loop(ns, _siftup(ns, heap, i), i - 1)

heapify(ns, heap) == heapify_loop(ns, heap, (Len(heap) \div 2) - 1)

\* heapq.heappop on a non-empty heap: [item, heap]
heappop(ns, heap) ==
    LET lastelt == heap[Len(heap)]
        rest == SubSeq(heap, 1, Len(heap) - 1)
    IN  IF rest # <<>>
        THEN [item |-> rest[1],
              heap |-> _siftup(ns, [rest EXCEPT ![1] = lastelt], 0)]
        ELSE [item |-> lastelt, heap |-> rest]

\* heapq.heappush
heappush(ns, heap, item) ==
    _siftdown(ns, Append(heap, item), 0, Len(heap), item)

---------------------------------------------------------------------------
(* build_huffman_tree.  A builder state is [nodes, priority_queue].        *)

\* lines 38-39: one leaf per dict entry, in dict order, then heapify
BuildStart(freqs) ==
    LET ns == [i \in DOMAIN freqs |->
                  HuffmanNode(freqs[i][1], freqs[i][2], NoNode, NoNode)]
    IN  [nodes |-> ns,
         priority_queue |-> heapify(ns, [i \in DOMAIN freqs |-> i])]

\* BuildMerge with the first node popped made the right child
MergeSwapped(b) ==
    LET p1 == heappop(b.nodes, b.priority_queue)
        p2 == heappop(b.nodes, p1.heap)
        left == p1.item
        right == p2.item
        merged == HuffmanNode(None, b.nodes[left].freq + b.nodes[right].freq,
                              right, left)
        ns == Append(b.nodes, merged)
    IN  [nodes |-> ns, priority_queue |-> heappush(ns, p2.heap, Len(ns))]

\* BuildMerge with the second node popped dropped
MergeDropsRight(b) ==
    LET p1 == heappop(b.nodes, b.priority_queue)
        p2 == heappop(b.nodes, p1.heap)
        left == p1.item
        merged == HuffmanNode(None, b.nodes[left].freq, left, NoNode)
        ns == Append(b.nodes, merged)
    IN  [nodes |-> ns, priority_queue |-> heappush(ns, p2.heap, Len(ns))]

\* lines 43-48: one iteration of the while loop
BuildMerge(b) ==
    LET p1 == heappop(b.nodes, b.priority_queue)
        p2 == heappop(b.nodes, p1.heap)
        left == p1.item
        right == p2.item
        merged == HuffmanNode(None, b.nodes[left].freq + b.nodes[right].freq,
                              left, right)
        ns == Append(b.nodes, merged)
    IN  [nodes |-> ns, priority_queue |-> heappush(ns, p2.heap, Len(ns))]

\* line 42: while len(priority_queue) > 1
BuildContinue(b) == Len(b.priority_queue) > 1

RECURSIVE BuildLoop(_)
BuildLoop(b) == IF BuildContinue(b) THEN BuildLoop(BuildMerge(b)) ELSE b

\* BuildResult returning None for an empty queue
BuildResultLenient(b) ==
    [nodes |-> b.nodes,
     root |-> IF b.priority_queue = <<>> THEN NoNode ELSE b.priority_queue[1],
     error |-> NoError]

\* line 50: priority_queue[0], an IndexError on an empty queue
BuildResult(b) ==
    IF b.priority_queue = <<>>
    THEN [nodes |-> b.nodes, root |-> NoNode, error |-> "IndexError"]
    ELSE [nodes |-> b.nodes, root |-> b.priority_queue[1], error |-> NoError]

\* build_huffman_tree(frequencies): [nodes, root, error]
build_huffman_tree(freqs) == BuildResult(BuildLoop(BuildStart(freqs)))

---------------------------------------------------------------------------
(* generate_prefix_code.  The code table is a function char -> code.       *)

EmptyTable == [c \in {} |-> <<>>]

TableSet(t, k, v) == [c \in DOMAIN t \cup {k} |-> IF c = k THEN v ELSE t[c]]

RECURSIVE GenerateBothZero(_, _, _, _)
\* generate_prefix_code_rec with "0" appended for the right child too
GenerateBothZero(ns, node, prefix, code_table) ==
    IF node = NoNode
    THEN code_table
    ELSE LET t1 == IF ns[node].char # None
                   THEN TableSet(code_table, ns[node].char, prefix)
                   ELSE code_table
             t2 == GenerateBothZero(ns, ns[node].left, Append(prefix, 0), t1)
         IN  GenerateBothZero(ns, ns[node].right, Append(prefix, 0), t2)

RECURSIVE generate_prefix_code_rec(_, _, _, _)
\* lines 67-73
generate_prefix_code_rec(ns, node, prefix, code_table) ==
    IF node = NoNode
    THEN code_table
    ELSE LET t1 == IF ns[node].char # None
                   THEN TableSet(code_table, ns[node].char, prefix)
                   ELSE code_table
             t2 == generate_prefix_code_rec(ns, ns[node].left,
                                            Append(prefix, 0), t1)
         IN  generate_prefix_code_rec(ns, ns[node].right,
                                      Append(prefix, 1), t2)

\* generate_prefix_code(node) with the default prefix "" and a fresh table
generate_prefix_code(ns, node) ==
    generate_prefix_code_rec(ns, node, <<>>, EmptyTable)

---------------------------------------------------------------------------
(* count_character_frequencies(file_path), on the characters of the file. *)

RECURSIVE CountLoop(_, _, _)
CountLoop(text, i, freqs) ==
    IF i > Len(text) THEN freqs
    ELSE CountLoop(text, i + 1,
                   DictSet(freqs, text[i], DictGet(freqs, text[i], 0) + 1))

count_character_frequencies(text) == CountLoop(text, 1, <<>>)

---------------------------------------------------------------------------
(* pack_bits and the decoder's expansion of bytes to a bit string.         *)

Zeros(n) == [i \in 1..n |-> 0]

RECURSIVE BitsToIntLoop(_, _, _)
BitsToIntLoop(bits, i, acc) ==
    IF i > Len(bits) THEN acc ELSE BitsToIntLoop(bits, i + 1, 2 * acc + bits[i])

\* int(s, 2)
BitsToInt(bits) == BitsToIntLoop(bits, 1, 0)

\* Pad with the zeros put in front
PadLeft(bits) == Zeros((8 - (Len(bits) % 8)) % 8) \o bits

\* line 120
Pad(bits) == bits \o Zeros((8 - (Len(bits) % 8)) % 8)

\* lines 123-128
pack_bits(bits) ==
    LET padded_bit_string == Pad(bits)
    IN  [k \in 1..(Len(padded_bit_string) \div 8) |->
            BitsToInt(SubSeq(padded_bit_string, 8 * (k - 1) + 1, 8 * k))]

\* f'{byte:08b}' for a byte in 0..255
ByteToBits(byte) == [i \in 1..8 |-> (byte \div (2 ^ (8 - i))) % 2]

RECURSIVE JoinBits(_, _)
\* line 179: ''.join(f'{byte:08b}' for byte in compressed_data)
JoinBits(data, i) ==
    IF i > Len(data) THEN <<>> ELSE ByteToBits(data[i]) \o JoinBits(data, i + 1)

\* line 182: s[:n] for n >= 0
Truncate(s, n) == SubSeq(s, 1, Min(n, Len(s)))

\* lines 179-182
Unpack(data, bit_string_length) == Truncate(JoinBits(data, 1), bit_string_length)

---------------------------------------------------------------------------
(* The header line: json.dumps(header) and json.loads(header_line).  A     *)
(* JSON object is the sequence of its members <<name, value>> as written;  *)
(* a number is the sequence of its decimal digits; a name is the escaped   *)
(* text between the quotes.                                                *)

RECURSIVE IntToDecimal(_)
IntToDecimal(n) ==
    IF n < 10 THEN <<n>> ELSE Append(IntToDecimal(n \div 10), n % 10)

RECURSIVE DecimalToIntLoop(_, _, _)
DecimalToIntLoop(ds, i, acc) ==
    IF i > Len(ds) THEN acc ELSE DecimalToIntLoop(ds, i + 1, 10 * acc + ds[i])

DecimalToInt(ds) == DecimalToIntLoop(ds, 1, 0)

\* the JSON string escape of a one-character key (ensure_ascii)
JsonEscape(c) ==
    CASE c = NL  -> "\\n"
      [] c = BOM -> "\\ufeff"
      [] OTHER   -> c

JsonUnescape(s) ==
    CASE s = "\\n"     -> NL
      [] s = "\\ufeff" -> BOM
      [] OTHER         -> s

\* a dict of counts as a JSON object, members in dict order
JsonDumpsCounts(d) ==
    [i \in DOMAIN d |-> <<JsonEscape(d[i][1]), IntToDecimal(d[i][2])>>]

RECURSIVE JsonLoadsCountsLoop(_, _, _)
\* members into a dict, a repeated name overwriting the earlier value
JsonLoadsCountsLoop(members, i, d) ==
    IF i > Len(members) THEN d
    ELSE JsonLoadsCountsLoop(members, i + 1,
            DictSet(d, JsonUnescape(members[i][1]), DecimalToInt(members[i][2])))

JsonLoadsCounts(members) == JsonLoadsCountsLoop(members, 1, <<>>)

\* the order of the characters by code point
Codepoint(c) ==
    LET order == <<NL, "a", "b", "c", "d", "e", "f", BOM>>
    IN  CHOOSE i \in DOMAIN order : order[i] = c

\* JsonDumps with sort_keys=True
JsonDumpsSortKeys(header) ==
    << <<"bit_string_length", IntToDecimal(header.bit_string_length)>>,
       <<"frequencies",
         LET d == header.frequencies
             Rank(i) == Cardinality({j \in DOMAIN d :
                                        Codepoint(d[j][1]) < Codepoint(d[i][1])}) + 1
         IN  JsonDumpsCounts(
                [r \in DOMAIN d |-> d[CHOOSE i \in DOMAIN d : Rank(i) = r]])>> >>

\* line 255: json.dumps({"frequencies": ..., "bit_string_length": ...})
JsonDumps(header) ==
    << <<"frequencies", JsonDumpsCounts(header.frequencies)>>,
       <<"bit_string_length", IntToDecimal(header.bit_string_length)>> >>

\* line 168: json.loads(header_line); an empty line is no JSON document
JsonLoads(header_line) ==
    IF header_line = <<>>
    THEN [error |-> "JSONDecodeError", value |-> <<>>]
    ELSE [error |-> NoError,
          value |-> [i \in DOMAIN header_line |->
                        <<header_line[i][1],
                          IF header_line[i][1] = "frequencies"
                          THEN JsonLoadsCounts(header_line[i][2])
                          ELSE DecimalToInt(header_line[i][2])>>]]

---------------------------------------------------------------------------
(* main(input_file, output_file) on an input file that validate_file       *)
(* accepts.                                                                *)

RECURSIVE EncodeLoop(_, _, _, _, _)
\* lines 242-249: line.lstrip(BOM) drops the BOMs a line starts with; every
\* other character is looked up in the code table
EncodeLoop(text, i, at_line_start, table, bits) ==
    IF i > Len(text) THEN [bit_string |-> bits, error |-> NoError]
    ELSE IF at_line_start /\ text[i] = BOM
         THEN EncodeLoop(text, i + 1, TRUE, table, bits)
    ELSE IF text[i] \in DOMAIN table
         THEN EncodeLoop(text, i + 1, text[i] = NL, table, bits \o table[text[i]])
    ELSE [bit_string |-> bits, error |-> "ValueError"]

\* lines 224-227
ScanFrequencies(text) ==
    LET scanned == count_character_frequencies(text)
    IN  IF DictHas(scanned, BOM) THEN DictDel(scanned, BOM) ELSE scanned

\* main's locals before step 1
MainLocals(old_file) ==
    [frequencies |-> <<>>, nodes |-> <<>>, huffman_root |-> NoNode,
     prefix_code_table |-> EmptyTable, bit_string |-> <<>>,
     compressed_data |-> <<>>, encoded_file |-> old_file, error |-> NoError]

\* lines 250-258: the header line, then the packed payload
MainWrite(locals, compressed) ==
    [locals EXCEPT
        !.compressed_data = compressed,
        !.encoded_file =
            [exists |-> TRUE,
             header_line |-> JsonDumps(
                 [frequencies |-> locals.frequencies,
                  bit_string_length |-> Len(locals.bit_string)]),
             payload |-> compressed]]

\* lines 240-249: the output file is opened for writing, then the bit string
\* is built; a ValueError leaves the file empty
MainEncode(locals, enc) ==
    IF enc.error # NoError
    THEN [locals EXCEPT !.bit_string = enc.bit_string,
                        !.encoded_file = [exists |-> TRUE,
                                          header_line |-> <<>>,
                                          payload |-> <<>>],
                        !.error = enc.error]
    ELSE MainWrite([locals EXCEPT !.bit_string = enc.bit_string],
                   pack_bits(enc.bit_string))

\* line 234
MainGenerate(text, locals, table) ==
    MainEncode([locals EXCEPT !.prefix_code_table = table],
               EncodeLoop(text, 1, TRUE, table, <<>>))

\* line 231; an exception goes to the except clause of line 262
MainBuild(text, locals, built) ==
    IF built.error # NoError
    THEN [locals EXCEPT !.nodes = built.nodes, !.error = built.error]
    ELSE MainGenerate(text,
                      [locals EXCEPT !.nodes = built.nodes,
                                     !.huffman_root = built.root],
                      generate_prefix_code(built.nodes, built.root))

\* lines 224-227
MainScan(text, locals, freqs) ==
    MainBuild(text, [locals EXCEPT !.frequencies = freqs],
              build_huffman_tree(freqs))

\* lines 222-263: main's locals, the compressed file and the exception the
\* except clause reported
main(text, old_file) ==
    MainScan(text, MainLocals(old_file), ScanFrequencies(text))

---------------------------------------------------------------------------
(* decode_compressed_file(encoded_file, output_file).                      *)

NoDec == [frequencies |-> <<>>, bit_string_length |-> 0, nodes |-> <<>>,
          huffman_root |-> NoNode, bit_string |-> <<>>,
          decoded_text |-> <<>>, current_node |-> NoNode, error |-> NoError]

RECURSIVE DecodeLoop(_, _, _, _, _, _)
\* lines 185-196; None.char is an AttributeError
DecodeLoop(ns, root, bits, i, current_node, decoded_text) ==
    IF i > Len(bits)
    THEN [decoded_text |-> decoded_text, current_node |-> current_node,
          error |-> NoError]
    ELSE LET next == IF bits[i] = 0 THEN ns[current_node].left
                                    ELSE ns[current_node].right
         IN  IF next = NoNode
             THEN [decoded_text |-> decoded_text, current_node |-> NoNode,
                   error |-> "AttributeError"]
             ELSE IF ns[next].char # None
             THEN DecodeLoop(ns, root, bits, i + 1, root,
                             Append(decoded_text, ns[next].char))
             ELSE DecodeLoop(ns, root, bits, i + 1, next, decoded_text)

\* an exception leaves the output file as it was
Raised(d, e, old_output) ==
    [dec |-> [d EXCEPT !.error = e], output_file |-> old_output]

\* lines 198-200
DecodeWrite(d, walk, old_output) ==
    IF walk.error # NoError
    THEN Raised([d EXCEPT !.decoded_text = walk.decoded_text,
                          !.current_node = walk.current_node],
                walk.error, old_output)
    ELSE [dec |-> [d EXCEPT !.decoded_text = walk.decoded_text,
                            !.current_node = walk.current_node],
          output_file |-> [exists |-> TRUE, text |-> walk.decoded_text]]

\* lines 176-196
DecodeWalk(d, payload, old_output) ==
    DecodeWrite([d EXCEPT !.bit_string = Unpack(payload, d.bit_string_length)],
                DecodeLoop(d.nodes, d.huffman_root,
                           Unpack(payload, d.bit_string_length), 1,
                           d.huffman_root, <<>>),
                old_output)

\* line 173
DecodeBuild(d, built, payload, old_output) ==
    IF built.error # NoError
    THEN Raised([d EXCEPT !.nodes = built.nodes], built.error, old_output)
    ELSE DecodeWalk([d EXCEPT !.nodes = built.nodes,
                              !.huffman_root = built.root],
                    payload, old_output)

\* lines 169-170
DecodeHeader(header, payload, old_output) ==
    IF ~ DictHas(header, "frequencies") \/ ~ DictHas(header, "bit_string_length")
    THEN Raised(NoDec, "KeyError", old_output)
    ELSE DecodeBuild(
            [NoDec EXCEPT
                !.frequencies = DictGet(header, "frequencies", <<>>),
                !.bit_string_length = DictGet(header, "bit_string_length", 0)],
            build_huffman_tree(DictGet(header, "frequencies", <<>>)),
            payload, old_output)

\* lines 167-168
DecodeParse(parsed, payload, old_output) ==
    IF parsed.error # NoError
    THEN Raised(NoDec, parsed.error, old_output)
    ELSE DecodeHeader(parsed.value, payload, old_output)

\* lines 165-200: [dec, output_file], dec the locals and the exception raised
decode_compressed_file(file, old_output) ==
    IF ~ file.exists
    THEN Raised(NoDec, "FileNotFoundError", old_output)
    ELSE DecodeParse(JsonLoads(file.header_line), file.payload, old_output)

---------------------------------------------------------------------------
(* The inputs drawn directly. *)

\* the frequency tables of up to n symbols with counts up to m, keys in the
\* order of Symbols (the builder never compares keys)
FreqTables(n, m) ==
    UNION {{[i \in 1..k |-> <<Symbols[i], cs[i]>>] : cs \in [1..k -> 1..m]}
           : k \in 0..n}

BitStrings(n) == SeqsUpTo({0, 1}, n)

\* compressed files with a well-formed header and any payload
StreamFiles ==
    {[exists |-> TRUE,
      header_line |-> JsonDumps([frequencies |-> f, bit_string_length |-> n]),
      payload |-> pack_bits(b)] :
        f \in FreqTables(MaxHeaderSymbols, MaxHeaderFreq),
        n \in 0..MaxHeaderBits,
        b \in BitStrings(MaxStreamBits)}

---------------------------------------------------------------------------
(* Compress, then decompress: --mode compress on an input text, then       *)
(* --mode decompress on what it wrote.                                     *)

Init ==
    /\ pc = "start"
    /\ input_text \in SeqsUpTo(Alphabet, MaxLen)
    /\ frequencies = <<>>
    /\ nodes = <<>>
    /\ priority_queue = <<>>
    /\ huffman_root = NoNode
    /\ prefix_code_table = EmptyTable
    /\ bit_string = <<>>
    /\ compressed_data = <<>>
    /\ encoded_file = NoEncodedFile
    /\ error = NoError
    /\ dec = NoDec
    /\ output_file = NoOutputFile

Main ==
    /\ pc = "start"
    /\ LET r == main(input_text, encoded_file)
       IN  /\ frequencies' = r.frequencies
           /\ nodes' = r.nodes
           /\ huffman_root' = r.huffman_root
           /\ prefix_code_table' = r.prefix_code_table
           /\ bit_string' = r.bit_string
           /\ compressed_data' = r.compressed_data
           /\ encoded_file' = r.encoded_file
           /\ error' = r.error
    /\ pc' = "compressed"
    /\ UNCHANGED <<input_text, priority_queue, dec, output_file>>

DecodeCompressedFile ==
    /\ pc = "compressed"
    /\ LET r == decode_compressed_file(encoded_file, output_file)
       IN  /\ dec' = r.dec
           /\ output_file' = r.output_file
    /\ pc' = "decompressed"
    /\ UNCHANGED <<input_text, frequencies, nodes, priority_queue,
                   huffman_root, prefix_code_table, bit_string,
                   compressed_data, encoded_file, error>>

Next == Main \/ DecodeCompressedFile

Spec == Init /\ [][Next]_vars

---------------------------------------------------------------------------
(* Decompress a compressed file drawn directly. *)

InitDecode ==
    /\ pc = "compressed"
    /\ encoded_file \in StreamFiles
    /\ input_text = <<>>
    /\ frequencies = <<>>
    /\ nodes = <<>>
    /\ priority_queue = <<>>
    /\ huffman_root = NoNode
    /\ prefix_code_table = EmptyTable
    /\ bit_string = <<>>
    /\ compressed_data = <<>>
    /\ error = NoError
    /\ dec = NoDec
    /\ output_file = NoOutputFile

NextDecode == DecodeCompressedFile

SpecDecode == InitDecode /\ [][NextDecode]_vars

---------------------------------------------------------------------------
(* build_huffman_tree step by step, then generate_prefix_code, on a        *)
(* frequency table drawn directly.                                         *)

InitTree ==
    /\ pc = "build"
    /\ frequencies \in FreqTables(MaxSymbols, MaxFreq) \cup {ExampleFrequencies}
    /\ input_text = <<>>
    /\ nodes = <<>>
    /\ priority_queue = <<>>
    /\ huffman_root = NoNode
    /\ prefix_code_table = EmptyTable
    /\ bit_string = <<>>
    /\ compressed_data = <<>>
    /\ encoded_file = NoEncodedFile
    /\ error = NoError
    /\ dec = NoDec
    /\ output_file = NoOutputFile

TreeUnchanged ==
    UNCHANGED <<input_text, frequencies, prefix_code_table, bit_string,
                compressed_data, encoded_file, dec, output_file>>

\* lines 38-39
TreeStart ==
    /\ pc = "build"
    /\ LET b == BuildStart(frequencies)
       IN  /\ nodes' = b.nodes
           /\ priority_queue' = b.priority_queue
    /\ pc' = "loop"
    /\ UNCHANGED <<huffman_root, error>>
    /\ TreeUnchanged

\* lines 42-48
TreeMerge ==
    /\ pc = "loop"
    /\ BuildContinue([nodes |-> nodes, priority_queue |-> priority_queue])
    /\ LET b == BuildMerge([nodes |-> nodes, priority_queue |-> priority_queue])
       IN  /\ nodes' = b.nodes
           /\ priority_queue' = b.priority_queue
    /\ UNCHANGED <<pc, huffman_root, error>>
    /\ TreeUnchanged

\* line 50
TreeReturn ==
    /\ pc = "loop"
    /\ ~ BuildContinue([nodes |-> nodes, priority_queue |-> priority_queue])
    /\ LET r == BuildResult([nodes |-> nodes, priority_queue |-> priority_queue])
       IN  /\ huffman_root' = r.root
           /\ error' = r.error
           /\ pc' = IF r.error = NoError THEN "built" ELSE "raised"
    /\ UNCHANGED <<nodes, priority_queue>>
    /\ TreeUnchanged

\* generate_prefix_code(huffman_root)
TreeGenerate ==
    /\ pc = "built"
    /\ prefix_code_table' = generate_prefix_code(nodes, huffman_root)
    /\ pc' = "generated"
    /\ UNCHANGED <<input_text, frequencies, nodes, priority_queue,
                   huffman_root, bit_string, compressed_data, encoded_file,
                   error, dec, output_file>>

NextTree == TreeStart \/ TreeMerge \/ TreeReturn \/ TreeGenerate

SpecTree == InitTree /\ [][NextTree]_vars

---------------------------------------------------------------------------
(* pack_bits, then the decoder's unpacking, on a bit string drawn          *)
(* directly.                                                               *)

InitPack ==
    /\ pc = "bits"
    /\ bit_string \in BitStrings(MaxBits)
    /\ input_text = <<>>
    /\ frequencies = <<>>
    /\ nodes = <<>>
    /\ priority_queue = <<>>
    /\ huffman_root = NoNode
    /\ prefix_code_table = EmptyTable
    /\ compressed_data = <<>>
    /\ encoded_file = NoEncodedFile
    /\ error = NoError
    /\ dec = NoDec
    /\ output_file = NoOutputFile

\* line 257
PackBits ==
    /\ pc = "bits"
    /\ compressed_data' = pack_bits(bit_string)
    /\ pc' = "packed"
    /\ UNCHANGED <<input_text, frequencies, nodes, priority_queue,
                   huffman_root, prefix_code_table, bit_string, encoded_file,
                   error, dec, output_file>>

\* lines 179-182, with the header's bit_string_length that of the bit string
UnpackBits ==
    /\ pc = "packed"
    /\ dec' = [dec EXCEPT !.bit_string_length = Len(bit_string),
                          !.bit_string = Unpack(compressed_data, Len(bit_string))]
    /\ pc' = "unpacked"
    /\ UNCHANGED <<input_text, frequencies, nodes, priority_queue,
                   huffman_root, prefix_code_table, bit_string,
                   compressed_data, encoded_file, error, output_file>>

NextPack == PackBits \/ UnpackBits

SpecPack == InitPack /\ [][NextPack]_vars

---------------------------------------------------------------------------
(* What the properties speak of. *)

IsPrefix(u, v) == Len(u) <= Len(v) /\ SubSeq(v, 1, Len(u)) = u

RECURSIVE Subtree(_, _)
\* the nodes reachable from a node
Subtree(ns, node) ==
    IF node = NoNode THEN {}
    ELSE {node} \cup Subtree(ns, ns[node].left) \cup Subtree(ns, ns[node].right)

RECURSIVE TreeSize(_, _)
\* the nodes below and at a node, one for every path to it
TreeSize(ns, node) ==
    IF node = NoNode THEN 0
    ELSE 1 + TreeSize(ns, ns[node].left) + TreeSize(ns, ns[node].right)

Leaves(ns, root) == {x \in Subtree(ns, root) : ns[x].char # None}

Internal(ns, root) == {x \in Subtree(ns, root) : ns[x].char = None}

Repeat(c, n) == [i \in 1..n |-> c]

\* the walk of lines 185-196 met a missing child, or ran out of bits away
\* from the root
MissingChild == dec.error = "AttributeError"
EndsMidCode ==
    /\ dec.error = NoError
    /\ dec.huffman_root # NoNode
    /\ dec.current_node # dec.huffman_root

---------------------------------------------------------------------------
(* The properties. *)

\* C1 (round-trip law): compressing a non-empty text and decompressing the
\* file written gives back the text, a text of one distinct symbol
\* included.  Stated for the texts without a BOM, which main strips
\* (lines 226 and 244).
C1_RoundTrip ==
    (pc = "decompressed" /\ input_text # <<>>
        /\ \A i \in DOMAIN input_text : input_text[i] # BOM)
    => output_file = [exists |-> TRUE, text |-> input_text]

\* C2 (pack/unpack law): pack_bits appends 0 to 7 zero bits and groups the
\* bits into bytes, most significant bit first, and the decoder's expansion
\* of those bytes cut to the length of the bit string is the bit string.
C2_PackUnpack ==
    pc = "unpacked" =>
        LET pad == 8 * Len(compressed_data) - Len(bit_string)
        IN  /\ pad \in 0..7
            /\ pad = 0 <=> Len(bit_string) % 8 = 0
            /\ \A k \in DOMAIN compressed_data : compressed_data[k] \in 0..255
            /\ JoinBits(compressed_data, 1) = bit_string \o Zeros(pad)
            /\ dec.bit_string = bit_string

C2_Witness ==
    /\ pc = "unpacked"
    /\ Len(bit_string) = MaxBits
    /\ Len(compressed_data) = 2
    /\ dec.bit_string = bit_string
    /\ bit_string[1] = 1
    /\ bit_string[MaxBits] = 1

\* C3 (prefix-free law): the code table of a frequency table of two or more
\* symbols has one code per symbol, and no symbol's code is a prefix of, or
\* equal to, another symbol's code.
C3_PrefixFree ==
    (pc = "generated" /\ Len(frequencies) >= 2) =>
        /\ DOMAIN prefix_code_table = DictKeys(frequencies)
        /\ \A c1, c2 \in DOMAIN prefix_code_table :
              c1 # c2 => ~ IsPrefix(prefix_code_table[c1], prefix_code_table[c2])

C3_Witness ==
    /\ pc = "generated"
    /\ Len(frequencies) = MaxSymbols
    /\ \A i \in DOMAIN frequencies : frequencies[i][2] = 1
    /\ Cardinality(DOMAIN prefix_code_table) = MaxSymbols

\* C4 (single-symbol decode): when the header's frequency table is the one
\* entry {c: n}, and so the bit string is empty, decompressing gives c
\* repeated n times.
C4_SingleSymbolDecode ==
    (pc = "decompressed" /\ error = NoError /\ Len(dec.frequencies) = 1)
    => /\ dec.bit_string_length = 0
       /\ output_file = [exists |-> TRUE,
                         text |-> Repeat(dec.frequencies[1][1],
                                         dec.frequencies[1][2])]

\* C5 (empty input): build_huffman_tree on a frequency table of no entries
\* raises (an IndexError) and returns no tree, and compressing an empty text
\* ends with that error and no compressed file written.
C5_EmptyInput ==
    pc # "start" =>
        /\ input_text = <<>> => frequencies = <<>>
        /\ frequencies = <<>> =>
              /\ error = "IndexError"
              /\ huffman_root = NoNode
              /\ ~ encoded_file.exists
              /\ encoded_file.header_line = <<>>
              /\ encoded_file.payload = <<>>

C5_Witness ==
    /\ pc = "compressed"
    /\ input_text = <<>>
    /\ error = "IndexError"
    /\ ~ encoded_file.exists

\* C6 (truncation): when the header's bit_string_length is more than 8 times
\* the number of payload bytes, decompressing a file with a well-formed
\* header fails with a TruncationError and writes nothing.
C6_Truncation ==
    (pc = "decompressed" /\ Len(dec.frequencies) >= 1
        /\ dec.bit_string_length > 8 * Len(encoded_file.payload))
    => /\ dec.error = "TruncationError"
       /\ ~ output_file.exists

\* C7 (corrupt stream): when the walk would move to a missing child, or the
\* bit string ends with the walk away from the root, decompressing ends
\* with an error and writes nothing, the symbols decoded so far included.
C7_CorruptStream ==
    (pc = "decompressed" /\ (MissingChild \/ EndsMidCode))
    => /\ dec.error # NoError
       /\ ~ output_file.exists

\* C8 (tree shape law): the tree built from N >= 1 symbols has N leaves,
\* one per symbol with that symbol's count, and for N > 1 it has N - 1
\* internal nodes, each with two children and the sum of their counts; for
\* N = 1 the root is the leaf, with no children.
C8_TreeShape ==
    (pc \in {"built", "generated"} /\ Len(frequencies) >= 1) =>
        LET N == Len(frequencies)
            leaves == Leaves(nodes, huffman_root)
            internal == Internal(nodes, huffman_root)
        IN  /\ Cardinality(leaves) = N
            /\ \A i \in 1..N :
                  \E x \in leaves :
                      /\ nodes[x].char = frequencies[i][1]
                      /\ nodes[x].freq = frequencies[i][2]
            /\ \A x \in leaves :
                  nodes[x].left = NoNode /\ nodes[x].right = NoNode
            /\ Cardinality(internal) = N - 1
            /\ \A x \in internal :
                  /\ nodes[x].left # NoNode
                  /\ nodes[x].right # NoNode
                  /\ nodes[x].left # nodes[x].right
                  /\ nodes[x].freq = nodes[nodes[x].left].freq
                                     + nodes[nodes[x].right].freq
            /\ TreeSize(nodes, huffman_root) = 2 * N - 1
            /\ N = 1 => /\ nodes[huffman_root].char = frequencies[1][1]
                        /\ nodes[huffman_root].left = NoNode
                        /\ nodes[huffman_root].right = NoNode

C8_Witness ==
    /\ pc = "built"
    /\ Len(frequencies) = MaxSymbols
    /\ Cardinality(Internal(nodes, huffman_root)) = MaxSymbols - 1
    /\ nodes[huffman_root].freq > MaxSymbols

\* C9 (determinism law): the tree the decompressor builds from the header
\* gives the code table the compressor generated, ties of frequency
\* included.
C9_Determinism ==
    (pc = "decompressed" /\ error = NoError) =>
        /\ dec.frequencies = frequencies
        /\ dec.huffman_root # NoNode
        /\ generate_prefix_code(dec.nodes, dec.huffman_root) = prefix_code_table

C9_Witness ==
    /\ pc = "decompressed"
    /\ error = NoError
    /\ Len(frequencies) = 3
    /\ \A i \in DOMAIN frequencies : frequencies[i][2] = 1
    /\ frequencies[1][1] = "c"
    /\ generate_prefix_code(dec.nodes, dec.huffman_root) = prefix_code_table

\* C10 (known codes): with the first node extracted the left ('0') child
\* and the second the right ('1') child, the frequencies
\* {a:45, b:13, c:12, d:16, e:9, f:5} get the codes
\* {a:'0', c:'100', b:'101', f:'1100', e:'1101', d:'111'}.
C10_KnownCodes ==
    (pc = "generated" /\ frequencies = ExampleFrequencies) =>
        /\ prefix_code_table = ExpectedCodes
        /\ \A c \in {"b", "c", "d"} : Len(prefix_code_table[c]) = 3
        /\ \A c \in {"e", "f"} : Len(prefix_code_table[c]) = 4
        /\ Len(prefix_code_table["a"]) = 1

C10_Witness ==
    /\ pc = "generated"
    /\ frequencies = ExampleFrequencies
    /\ prefix_code_table["f"] = <<1, 1, 0, 0>>

===========================================================================
